---- MODULE Spec2Model ----
(***************************************************************************)
(* A model of AILiteracyPlatform (src/ai_literacy.py): the in-memory store *)
(* of users, learning modules and per-(user, module) progress records, its *)
(* two mutators create_user and update_progress, the queries computed from *)
(* the store, and its persistence: save_platform_data and                  *)
(* load_platform_data.                                                     *)
(*                                                                         *)
(* Percentages, minutes and quiz scores are integers.  A mean is never     *)
(* stored: every comparison of a mean with a threshold is made on the sum  *)
(* and the count (sum < 60 * n), which is exact for these values.          *)
(* Titles are sequences of character codes, compared as Python compares    *)
(* str values.  Identifiers produced by uuid4 are drawn from a finite pool *)
(* of names that are not in use.                                           *)
(***************************************************************************)
EXTENDS Integers, Sequences, FiniteSets, TLC

VARIABLES
    users,          \* self.users: user id -> User
    modules,        \* self.modules: the modules in insertion order (a dict keeps it)
    user_progress,  \* self.user_progress: user id -> module id -> UserProgress
    ret,            \* the last call of a mutator and the value it returned
    calls,          \* history: <<user id, module id>> -> the (completion, time) arguments
                    \*          of the successful update_progress calls on the pair
    nops            \* history: the number of calls made so far

vars == <<users, modules, user_progress, ret, calls, nops>>

----------------------------------------------------------------------------
(* Bounds of the model *)

\* the number of calls in a run
MaxOps == 3

\* the identifiers uuid4 hands out to create_user, and one never handed out
UserIdPool == <<"u1", "u2">>
UserIds == {UserIdPool[i] : i \in 1..Len(UserIdPool)}
UnknownUser == "u0"

\* the user ids calls are made with: the pool, an id of stored documents only,
\* and one no store ever holds
UserArgs == UserIds \cup {"u3", UnknownUser}

\* the module ids of the sample content and of the stored documents, and one no
\* store ever holds
KnownModuleIds == {"m1", "m2", "m3"}
UnknownModule == "m0"

\* completion_percentage arguments: below the scale, part-way, the completion
\* threshold itself
Completions == {-10, 45, 90}

\* time_spent arguments: the default and the demo's 20 minutes
TimeArgs == {0, 20}

\* quiz score lists: the demo's low and high lists, and lists whose mean is
\* exactly 60 and exactly 85
QuizScoreLists == {<<45, 52, 48>>, <<55, 65>>, <<80, 90>>, <<88, 92, 85, 90>>}

----------------------------------------------------------------------------
(* Enumerations *)

UserRole == {"STUDENT", "TEACHER", "ADMIN"}
DifficultyLevel == {"BEGINNER", "INTERMEDIATE", "ADVANCED"}
ModuleCategory ==
    {"AI_BASICS", "APPLICATIONS", "ETHICS_BIAS", "CRITICAL_THINKING", "PRACTICAL_SKILLS"}

----------------------------------------------------------------------------
(* Helpers *)

EmptyMap == [x \in {} |-> 0]

Max(a, b) == IF a >= b THEN a ELSE b

Range(s) == {s[i] : i \in 1..Len(s)}

RECURSIVE SumSeq(_)
SumSeq(s) == IF s = <<>> THEN 0 ELSE Head(s) + SumSeq(Tail(s))

\* the keys of self.modules
ModuleIds == {modules[i].id : i \in 1..Len(modules)}

ModuleArgs == ModuleIds \cup {UnknownModule}

----------------------------------------------------------------------------
(* Construction *)

TitleIntroduction ==
    <<73, 110, 116, 114, 111, 100, 117, 99, 116, 105, 111, 110, 32, 116, 111, 32,
      65, 114, 116, 105, 102, 105, 99, 105, 97, 108, 32, 73, 110, 116, 101, 108,
      108, 105, 103, 101, 110, 99, 101>>

TitleEthics ==
    <<65, 73, 32, 69, 116, 104, 105, 99, 115, 32, 97, 110, 100, 32, 66, 105, 97, 115>>

\* _initialize_sample_content: ai_basics, then ethics_module which requires it
SampleContent ==
    << [id |-> "m1", title |-> TitleIntroduction, category |-> "AI_BASICS",
        difficulty |-> "BEGINNER", prerequisites |-> <<>>],
       [id |-> "m2", title |-> TitleEthics, category |-> "ETHICS_BIAS",
        difficulty |-> "INTERMEDIATE", prerequisites |-> <<"m1">>] >>

NoCalls == [p \in UserArgs \X (KnownModuleIds \cup {UnknownModule}) |-> <<>>]

NoCall == [op |-> "none", user_id |-> "-", module_id |-> "-", value |-> FALSE]

Init ==
    /\ users = EmptyMap
    /\ modules = SampleContent
    /\ user_progress = EmptyMap
    /\ ret = NoCall
    /\ calls = NoCalls
    /\ nops = 0

----------------------------------------------------------------------------
(* create_user *)

\* User(username, email, role): a generated id, the progress mapping starts empty
NewUser(id, role) == [id |-> id, role |-> role, progress |-> EmptyMap]

\* str(uuid.uuid4()): an identifier no user of the store has
FreshUserId ==
    UserIdPool[CHOOSE i \in 1..Len(UserIdPool) :
                  /\ UserIdPool[i] \notin DOMAIN users
                  /\ \A j \in 1..(i - 1) : UserIdPool[j] \in DOMAIN users]

CreateUser(role) ==
    /\ nops < MaxOps
    /\ UserIds \ DOMAIN users # {}
    /\ LET id == FreshUserId
       IN /\ users' = (id :> NewUser(id, role)) @@ users
          /\ user_progress' = (id :> EmptyMap) @@ user_progress
          /\ ret' = [op |-> "create_user", user_id |-> id, module_id |-> "-",
                     value |-> TRUE]
    /\ nops' = nops + 1
    /\ UNCHANGED <<modules, calls>>

----------------------------------------------------------------------------
(* update_progress *)

\* (variant: the two ids are passed in the other order)
NewUserProgressSwapped(user_id, module_id) ==
    [user_id |-> module_id, module_id |-> user_id, completion_percentage |-> 0,
     time_spent |-> 0, quiz_scores |-> <<>>]

\* UserProgress(user_id=user_id, module_id=module_id) with the dataclass defaults
NewUserProgress(user_id, module_id) ==
    [user_id |-> user_id, module_id |-> module_id, completion_percentage |-> 0,
     time_spent |-> 0, quiz_scores |-> <<>>]

\* (variant: the new value is stored without the max)
NewCompletionLast(old, completion_percentage) == completion_percentage

\* progress.completion_percentage = max(progress.completion_percentage, completion_percentage)
NewCompletion(old, completion_percentage) == Max(old, completion_percentage)

\* (variant: = in place of +=)
NewTimeSpentOverwrite(old, time_spent) == time_spent

\* progress.time_spent += time_spent
NewTimeSpent(old, time_spent) == old + time_spent

\* self.users[user_id].progress[module_id] = completion_percentage
MirroredProgress(record, completion_percentage) == completion_percentage

\* (variant: the module id is not looked up)
UpdateRejectedUserOnly(user_id, module_id) == user_id \notin DOMAIN users

\* the guard of update_progress
UpdateRejected(user_id, module_id) ==
    user_id \notin DOMAIN users \/ module_id \notin ModuleIds

\* the find-or-create of the (user, module) record
WithRecord(user_id, module_id) ==
    LET up1 == IF user_id \notin DOMAIN user_progress
               THEN (user_id :> EmptyMap) @@ user_progress
               ELSE user_progress
    IN  IF module_id \notin DOMAIN up1[user_id]
        THEN [up1 EXCEPT ![user_id] = (module_id :> NewUserProgress(user_id, module_id)) @@ @]
        ELSE up1

UpdateProgress(user_id, module_id, completion_percentage, time_spent) ==
    /\ nops < MaxOps
    /\ nops' = nops + 1
    /\ IF UpdateRejected(user_id, module_id)
       THEN /\ ret' = [op |-> "update_progress", user_id |-> user_id,
                       module_id |-> module_id, value |-> FALSE]
            /\ UNCHANGED <<users, modules, user_progress, calls>>
       ELSE /\ LET up == WithRecord(user_id, module_id)
                   progress == up[user_id][module_id]
                   updated ==
                       [progress EXCEPT
                          !.completion_percentage =
                              NewCompletion(@, completion_percentage),
                          !.time_spent = NewTimeSpent(@, time_spent)]
               IN  /\ user_progress' = [up EXCEPT ![user_id][module_id] = updated]
                   /\ users' = [users EXCEPT ![user_id].progress =
                                  (module_id :>
                                     MirroredProgress(updated, completion_percentage)) @@ @]
            /\ ret' = [op |-> "update_progress", user_id |-> user_id,
                       module_id |-> module_id, value |-> TRUE]
            /\ calls' = [calls EXCEPT ![<<user_id, module_id>>] =
                            Append(@, <<completion_percentage, time_spent>>)]
            /\ UNCHANGED modules

----------------------------------------------------------------------------
(* The demo's direct assignment of quiz scores:                            *)
(*   if student.id in platform.user_progress and                           *)
(*      ai_basics_id in platform.user_progress[student.id]:                *)
(*       platform.user_progress[student.id][ai_basics_id].quiz_scores = [...] *)

HasRecord(user_id, module_id) ==
    /\ user_id \in DOMAIN user_progress
    /\ module_id \in DOMAIN user_progress[user_id]

AssignQuizScores(user_id, module_id, scores) ==
    /\ nops < MaxOps
    /\ HasRecord(user_id, module_id)
    /\ user_progress' = [user_progress EXCEPT ![user_id][module_id].quiz_scores = scores]
    /\ ret' = [op |-> "quiz_scores", user_id |-> user_id, module_id |-> module_id,
               value |-> TRUE]
    /\ nops' = nops + 1
    /\ UNCHANGED <<users, modules, calls>>

----------------------------------------------------------------------------
(* get_personalized_learning_path *)

\* Python's < on two str values, here on their character codes
RECURSIVE StrLess(_, _)
StrLess(a, b) ==
    IF b = <<>> THEN FALSE
    ELSE IF a = <<>> THEN TRUE
    ELSE IF Head(a) # Head(b) THEN Head(a) < Head(b)
    ELSE StrLess(Tail(a), Tail(b))

\* difficulty_order in sort_key
DifficultyOrder(difficulty) ==
    CASE difficulty = "BEGINNER" -> 1
      [] difficulty = "INTERMEDIATE" -> 2
      [] difficulty = "ADVANCED" -> 3

\* (variant: the key is the title alone)
SortKeyTitleOnly(module) == <<0, module.title>>

\* sort_key(module): the tuple (difficulty_order[module.difficulty], module.title)
SortKey(module) == <<DifficultyOrder(module.difficulty), module.title>>

\* Python's < on two such tuples
KeyLess(k1, k2) ==
    \/ k1[1] < k2[1]
    \/ k1[1] = k2[1] /\ StrLess(k1[2], k2[2])

\* sorted(..., key=sort_key) is stable: an element goes behind every element
\* already placed whose key is not greater than its own
RECURSIVE InsertByKey(_, _)
InsertByKey(module, sorted) ==
    IF sorted = <<>> THEN <<module>>
    ELSE IF KeyLess(SortKey(module), SortKey(Head(sorted)))
         THEN <<module>> \o sorted
         ELSE <<Head(sorted)>> \o InsertByKey(module, Tail(sorted))

RECURSIVE SortedByKey(_)
SortedByKey(seq) ==
    IF seq = <<>> THEN <<>>
    ELSE InsertByKey(seq[Len(seq)], SortedByKey(SubSeq(seq, 1, Len(seq) - 1)))

\* (variant: every module the user has a progress value for counts as completed)
CompletedModulesAnyProgress(user) == DOMAIN user.progress

\* completed_modules = {module_id for module_id, progress in user.progress.items()
\*                      if progress >= 90.0}
CompletedModules(user) ==
    {module_id \in DOMAIN user.progress : user.progress[module_id] >= 90}

\* (variant: the prerequisites are not consulted)
PrerequisitesIgnored(module, completed_modules) == TRUE

\* prerequisites_met = all(prereq in completed_modules for prereq in module.prerequisites)
PrerequisitesMet(module, completed_modules) ==
    \A i \in 1..Len(module.prerequisites) : module.prerequisites[i] \in completed_modules

\* the loop that fills available_modules
IsAvailable(module, completed_modules) ==
    /\ module.id \notin completed_modules
    /\ PrerequisitesMet(module, completed_modules)

AvailableModules(user) ==
    LET completed_modules == CompletedModules(user)
        Keep(module) == IsAvailable(module, completed_modules)
    IN  SelectSeq(modules, Keep)

get_personalized_learning_path(user_id) ==
    IF user_id \notin DOMAIN users
    THEN <<>>
    ELSE SortedByKey(AvailableModules(users[user_id]))

----------------------------------------------------------------------------
(* get_adaptive_feedback *)

\* the record built before the progress lookup
InitialFeedback ==
    [message |-> "", suggestions |-> <<>>, next_steps |-> <<>>,
     difficulty_adjustment |-> 0]

NotFound == [error |-> "User or module not found"]

\* avg_score = sum(quiz_scores) / len(quiz_scores) if quiz_scores else 0,
\* compared with a threshold: avg_score < limit
AvgScoreBelow(quiz_scores, limit) ==
    IF quiz_scores = <<>> THEN 0 < limit
    ELSE SumSeq(quiz_scores) < limit * Len(quiz_scores)

\* avg_score > limit
AvgScoreAbove(quiz_scores, limit) ==
    IF quiz_scores = <<>> THEN 0 > limit
    ELSE SumSeq(quiz_scores) > limit * Len(quiz_scores)

\* if avg_score < 60
NeedsReview(quiz_scores) == AvgScoreBelow(quiz_scores, 60)

\* (variant: >= 85)
ReadyToAdvanceInclusive(quiz_scores) == ~AvgScoreBelow(quiz_scores, 85)

\* elif avg_score > 85
ReadyToAdvance(quiz_scores) == AvgScoreAbove(quiz_scores, 85)

RemedialFeedback ==
    [InitialFeedback EXCEPT
       !.message = "Consider reviewing the foundational concepts before moving forward.",
       !.suggestions = <<"Revisit the basic definitions",
                         "Try the interactive exercises again",
                         "Watch supplementary videos">>,
       !.difficulty_adjustment = -1]

AdvancementFeedback ==
    [InitialFeedback EXCEPT
       !.message = "Excellent work! You're ready for more advanced topics.",
       !.suggestions = <<"Explore advanced scenarios",
                         "Try the challenge problems",
                         "Consider peer tutoring opportunities">>,
       !.difficulty_adjustment = 1]

EncouragementFeedback ==
    [InitialFeedback EXCEPT
       !.message = "Good progress! Keep practicing to solidify your understanding.",
       !.suggestions = <<"Complete additional practice scenarios",
                         "Review areas where you scored lower">>]

\* the if / elif / else on avg_score
FeedbackFor(quiz_scores) ==
    IF NeedsReview(quiz_scores) THEN RemedialFeedback
    ELSE IF ReadyToAdvance(quiz_scores) THEN AdvancementFeedback
    ELSE EncouragementFeedback

\* (variant: a missing record falls into the else branch)
FeedbackWithoutRecordAsElse == EncouragementFeedback

\* (variant: a missing record is read as an empty list of scores)
FeedbackWithoutRecordAsEmpty == FeedbackFor(<<>>)

\* the result when the (user, module) pair has no UserProgress record
FeedbackWithoutRecord == InitialFeedback

get_adaptive_feedback(user_id, module_id) ==
    IF user_id \notin DOMAIN users \/ module_id \notin ModuleIds
    THEN NotFound
    ELSE IF HasRecord(user_id, module_id)
         THEN FeedbackFor(user_progress[user_id][module_id].quiz_scores)
         ELSE FeedbackWithoutRecord

----------------------------------------------------------------------------
(* Exact quotients: a / b of two integers, b > 0, in lowest terms *)

RECURSIVE GCD(_, _)
GCD(a, b) == IF b = 0 THEN a ELSE GCD(b, a % b)

Quotient(a, b) ==
    LET g == GCD(IF a < 0 THEN -a ELSE a, b)
    IN  [num |-> a \div g, den |-> b \div g]

Zero == Quotient(0, 1)

\* sum(f[k] for k in keys)
RECURSIVE SumOver(_, _)
SumOver(f, keys) ==
    IF keys = {} THEN 0
    ELSE LET k == CHOOSE x \in keys : TRUE
         IN  f[k] + SumOver(f, keys \ {k})

----------------------------------------------------------------------------
(* get_teacher_dashboard_data *)

AccessDenied == [error |-> "Access denied"]

\* students = [user for user in self.users.values() if user.role == UserRole.STUDENT]
Students == {id \in DOMAIN users : users[id].role = "STUDENT"}

\* avg_completion: the mean of student.progress.values(), 0.0 when it is empty
AvgCompletion(student) ==
    IF DOMAIN student.progress = {} THEN Zero
    ELSE Quotient(SumOver(student.progress, DOMAIN student.progress),
                  Cardinality(DOMAIN student.progress))

\* total_time_spent: over the student's UserProgress records, when there are any
TotalTimeSpent(student_id) ==
    IF student_id \in DOMAIN user_progress
    THEN LET records == user_progress[student_id]
             minutes == [m \in DOMAIN records |-> records[m].time_spent]
         IN  SumOver(minutes, DOMAIN records)
    ELSE 0

\* the entry appended to student_progress for one student
StudentProgressEntry(student_id) ==
    [completion_rate |-> AvgCompletion(users[student_id]),
     time_spent |-> TotalTimeSpent(student_id)]

\* completed_count = sum(1 for student in students
\*                       if student.progress.get(module_id, 0) >= 90.0)
CompletedCount(module_id) ==
    Cardinality({id \in Students :
                    (IF module_id \in DOMAIN users[id].progress
                     THEN users[id].progress[module_id] ELSE 0) >= 90})

\* (completed_count / len(students)) * 100 if students else 0
CompletionRate(module_id) ==
    IF Students # {}
    THEN Quotient(CompletedCount(module_id) * 100, Cardinality(Students))
    ELSE Zero

\* dashboard_data["module_completion_rates"][module.title] = ...: the key is the
\* title, so a later module of the same title replaces the entry of an earlier one
RECURSIVE ModuleCompletionRates(_)
ModuleCompletionRates(n) ==
    IF n = 0 THEN EmptyMap
    ELSE (modules[n].title :> CompletionRate(modules[n].id))
            @@ ModuleCompletionRates(n - 1)

\* (variant: every role but student is let in)
DashboardDeniedToStudents(teacher_id) ==
    teacher_id \notin DOMAIN users \/ users[teacher_id].role = "STUDENT"

\* if not teacher or teacher.role != UserRole.TEACHER
DashboardDenied(teacher_id) ==
    teacher_id \notin DOMAIN users \/ users[teacher_id].role # "TEACHER"

get_teacher_dashboard_data(teacher_id) ==
    IF DashboardDenied(teacher_id)
    THEN AccessDenied
    ELSE [total_students |-> Cardinality(Students),
          student_progress |-> [id \in Students |-> StudentProgressEntry(id)],
          module_completion_rates |-> ModuleCompletionRates(Len(modules)),
          common_challenges |-> <<>>,
          recommendations |-> <<>>]

----------------------------------------------------------------------------
(* get_student_analytics *)

StudentNotFound == [error |-> "Student not found"]

\* the analytics record before the student's records are read
InitialAnalytics ==
    [overall_progress |-> Zero, total_time_spent |-> 0, modules_completed |-> 0,
     modules_in_progress |-> 0, average_quiz_score |-> Zero, learning_streak |-> 0,
     strengths |-> <<>>, areas_for_improvement |-> <<>>,
     next_recommendations |-> <<>>]

\* (variant: every record that is not completed counts as in progress)
InProgressWhenNotCompleted(completion_percentage) == ~(completion_percentage >= 90)

\* elif progress.completion_percentage > 0, reached when it is not >= 90
InProgress(completion_percentage) ==
    ~(completion_percentage >= 90) /\ completion_percentage > 0

\* the loop over self.user_progress[student_id].items() and what follows it
AnalyticsOver(records) ==
    LET ids == DOMAIN records
        completion == [m \in ids |-> records[m].completion_percentage]
        minutes == [m \in ids |-> records[m].time_spent]
        score_sum == [m \in ids |-> SumSeq(records[m].quiz_scores)]
        score_count == [m \in ids |-> Len(records[m].quiz_scores)]
        total_modules == Cardinality(ids)
        n_scores == SumOver(score_count, ids)
    IN  [InitialAnalytics EXCEPT
           !.overall_progress =
               IF total_modules > 0
               THEN Quotient(SumOver(completion, ids), total_modules) ELSE @,
           !.total_time_spent = SumOver(minutes, ids),
           !.modules_completed =
               Cardinality({m \in ids : completion[m] >= 90}),
           !.modules_in_progress =
               Cardinality({m \in ids : InProgress(completion[m])}),
           !.average_quiz_score =
               IF n_scores > 0
               THEN Quotient(SumOver(score_sum, ids), n_scores) ELSE @]

\* if not student or student.role != UserRole.STUDENT
AnalyticsDenied(student_id) ==
    student_id \notin DOMAIN users \/ users[student_id].role # "STUDENT"

get_student_analytics(student_id) ==
    IF AnalyticsDenied(student_id)
    THEN StudentNotFound
    ELSE IF student_id \in DOMAIN user_progress
         THEN AnalyticsOver(user_progress[student_id])
         ELSE InitialAnalytics

----------------------------------------------------------------------------
(* recommend_next_module *)

\* the value returned when there is nothing to recommend
None == [none |-> TRUE]

\* self.modules.get(module_id) of a module id the store holds
ModuleOf(module_id) ==
    modules[CHOOSE i \in 1..Len(modules) : modules[i].id = module_id]

\* sum(quiz_scores) / len(quiz_scores) of a list that is not empty
AvgScore(quiz_scores) == Quotient(SumSeq(quiz_scores), Len(quiz_scores))

QuotientSum(q1, q2) == Quotient(q1.num * q2.den + q2.num * q1.den, q1.den * q2.den)

\* sum(category_performance[category]): the sum of the avg_score of the records
RECURSIVE SumOfAvgScores(_, _)
SumOfAvgScores(records, ids) ==
    IF ids = {} THEN Zero
    ELSE LET m == CHOOSE x \in ids : TRUE
         IN  QuotientSum(AvgScore(records[m].quiz_scores),
                         SumOfAvgScores(records, ids \ {m}))

\* the records that append to category_performance[category]: their module is
\* in the store, in the category, and they hold quiz scores
ScoredIn(records, category) ==
    {m \in DOMAIN records :
        /\ m \in ModuleIds
        /\ records[m].quiz_scores # <<>>
        /\ ModuleOf(m).category = category}

\* category_performance, each list kept as its sum and its length
CategoryPerformance(records) ==
    LET categories == {c \in ModuleCategory : ScoredIn(records, c) # {}}
    IN  [c \in categories |->
            [total |-> SumOfAvgScores(records, ScoredIn(records, c)),
             count |-> Cardinality(ScoredIn(records, c))]]

\* avg_category_score > 75
GoodPerformance(performance) ==
    performance.total.num > 75 * performance.count * performance.total.den

\* (variant: the loop over available_modules is left out)
DefaultModule(available_modules, category_performance) == available_modules[1]

\* best_module = available_modules[0], replaced by the first module of the loop
\* whose category performs well
BestModule(available_modules, category_performance) ==
    LET good == {i \in 1..Len(available_modules) :
                    /\ available_modules[i].category \in DOMAIN category_performance
                    /\ GoodPerformance(
                           category_performance[available_modules[i].category])}
    IN  IF good = {} THEN available_modules[1]
        ELSE available_modules[CHOOSE i \in good : \A j \in good : i <= j]

recommend_next_module(user_id) ==
    IF user_id \notin DOMAIN users THEN None
    ELSE LET available_modules == get_personalized_learning_path(user_id)
             records == IF user_id \in DOMAIN user_progress
                        THEN user_progress[user_id] ELSE EmptyMap
         IN  IF available_modules = <<>> THEN None
             ELSE BestModule(available_modules, CategoryPerformance(records))

----------------------------------------------------------------------------
(* load_platform_data *)
(* A document is what json.load returns: three objects, each a sequence of *)
(* (key, data) members in file order, data being a JSON object, here a     *)
(* record that has exactly the keys the object has.  Enum members are      *)
(* stored by their value, a lower-case tag.                                *)

\* UserRole(tag), DifficultyLevel(tag), ModuleCategory(tag): the member of a tag
RoleTags == [student |-> "STUDENT", teacher |-> "TEACHER", admin |-> "ADMIN"]

DifficultyTags ==
    [beginner |-> "BEGINNER", intermediate |-> "INTERMEDIATE", advanced |-> "ADVANCED"]

CategoryTags ==
    [ai_basics |-> "AI_BASICS", applications |-> "APPLICATIONS",
     ethics_bias |-> "ETHICS_BIAS", critical_thinking |-> "CRITICAL_THINKING",
     practical_skills |-> "PRACTICAL_SKILLS"]

\* User(id=user_data["id"], ..., role=UserRole(user_data["role"]), ...) raises
\* KeyError on an absent key and ValueError on an unknown tag
UserParses(data) ==
    /\ {"id", "role", "progress"} \subseteq DOMAIN data
    /\ data.role \in DOMAIN RoleTags

ParsedUser(data) ==
    [id |-> data.id, role |-> RoleTags[data.role], progress |-> data.progress]

ModuleParses(data) ==
    /\ {"id", "title", "category", "difficulty", "prerequisites"} \subseteq DOMAIN data
    /\ data.category \in DOMAIN CategoryTags
    /\ data.difficulty \in DOMAIN DifficultyTags

ParsedModule(data) ==
    [id |-> data.id, title |-> data.title, category |-> CategoryTags[data.category],
     difficulty |-> DifficultyTags[data.difficulty],
     prerequisites |-> data.prerequisites]

ProgressParses(data) ==
    {"user_id", "module_id", "completion_percentage", "time_spent", "quiz_scores"}
        \subseteq DOMAIN data

ParsedProgress(data) ==
    [user_id |-> data.user_id, module_id |-> data.module_id,
     completion_percentage |-> data.completion_percentage,
     time_spent |-> data.time_spent, quiz_scores |-> data.quiz_scores]

\* the number of leading members a loop gets through before one raises
RECURSIVE GoodPrefix(_, _)
GoodPrefix(oks, n) ==
    IF n < Len(oks) /\ oks[n + 1] THEN GoodPrefix(oks, n + 1) ELSE n

\* self.users after the first n members of data["users"]
RECURSIVE LoadedUsers(_, _)
LoadedUsers(members, n) ==
    IF n = 0 THEN EmptyMap
    ELSE (members[n].key :> ParsedUser(members[n].data)) @@ LoadedUsers(members, n - 1)

\* self.modules after the first n members of data["modules"]
LoadedModules(members, n) == [i \in 1..n |-> ParsedModule(members[i].data)]

\* self.user_progress[user_id] after the first n members of one user's object
RECURSIVE LoadedRecords(_, _)
LoadedRecords(members, n) ==
    IF n = 0 THEN EmptyMap
    ELSE (members[n].key :> ParsedProgress(members[n].data))
            @@ LoadedRecords(members, n - 1)

RecordsOk(members) == [i \in 1..Len(members) |-> ProgressParses(members[i].data)]

UserRecordsOk(members) ==
    GoodPrefix(RecordsOk(members), 0) = Len(members)

\* self.user_progress when the loops end: every user object before the first one
\* that holds a bad record in full, and that one up to its bad record
RECURSIVE LoadedProgress(_, _)
LoadedProgress(members, n) ==
    IF n = 0 THEN EmptyMap
    ELSE LET inner == members[n].data
         IN  (members[n].key :>
                 LoadedRecords(inner, GoodPrefix(RecordsOk(inner), 0)))
                @@ LoadedProgress(members, n - 1)

\* self, as the collections load_platform_data assigns
Store == [users |-> users, modules |-> modules, user_progress |-> user_progress]

\* the collections of a store after load_platform_data(doc), and the flag the
\* call returns: each collection is emptied when its loop is reached and keeps
\* what the loop had filled in when an entry raises
LoadResult(store, doc) ==
    IF ~doc.readable
    THEN \* open or json.load raised: nothing was assigned
         [users |-> store.users, modules |-> store.modules,
          user_progress |-> store.user_progress, value |-> FALSE]
    ELSE LET users_ok == [i \in 1..Len(doc.users) |-> UserParses(doc.users[i].data)]
             n_users == GoodPrefix(users_ok, 0)
             modules_ok ==
                 [i \in 1..Len(doc.modules) |-> ModuleParses(doc.modules[i].data)]
             n_modules == GoodPrefix(modules_ok, 0)
             progress_ok ==
                 [i \in 1..Len(doc.user_progress) |->
                     UserRecordsOk(doc.user_progress[i].data)]
             n_progress == GoodPrefix(progress_ok, 0)
             users_done == n_users = Len(doc.users)
             modules_done == users_done /\ n_modules = Len(doc.modules)
             progress_done == modules_done /\ n_progress = Len(doc.user_progress)
         IN  [users |-> LoadedUsers(doc.users, n_users),
              modules |-> IF users_done
                          THEN LoadedModules(doc.modules, n_modules)
                          ELSE store.modules,
              user_progress |->
                  IF modules_done
                  THEN LoadedProgress(doc.user_progress,
                                      IF progress_done THEN n_progress
                                      ELSE n_progress + 1)
                  ELSE store.user_progress,
              value |-> progress_done]

LoadPlatformData(doc) ==
    /\ nops < MaxOps
    /\ nops' = nops + 1
    /\ calls' = NoCalls
    /\ LET result == LoadResult(Store, doc)
       IN  /\ users' = result.users
           /\ modules' = result.modules
           /\ user_progress' = result.user_progress
           /\ ret' = [op |-> "load_platform_data", user_id |-> "-",
                      module_id |-> "-", value |-> result.value]

----------------------------------------------------------------------------
(* The documents load_platform_data is given.  Every key is the id of its  *)
(* member, as save_platform_data writes it.                                *)

Member(key, data) == [key |-> key, data |-> data]

StoredModule(id, title, category, difficulty, prerequisites) ==
    Member(id, [id |-> id, title |-> title, category |-> category,
                difficulty |-> difficulty, prerequisites |-> prerequisites])

StoredUser(id, role, progress) ==
    Member(id, [id |-> id, role |-> role, progress |-> progress])

StoredProgress(user_id, module_id, completion_percentage, time_spent, quiz_scores) ==
    Member(module_id,
           [user_id |-> user_id, module_id |-> module_id,
            completion_percentage |-> completion_percentage,
            time_spent |-> time_spent, quiz_scores |-> quiz_scores])

\* three modules stored in an order that is not the order of their sort keys:
\* "AA" (intermediate, after "A"), "AB" and "A" (both beginner)
CourseModules ==
    << StoredModule("m1", <<65, 65>>, "applications", "intermediate", <<"m3">>),
       StoredModule("m2", <<65, 66>>, "ai_basics", "beginner", <<>>),
       StoredModule("m3", <<65>>, "ai_basics", "beginner", <<>>) >>

\* a class of two students and a teacher; the first student has completed "m3"
CourseDocument ==
    [readable |-> TRUE,
     users |-> << StoredUser("u1", "student", ("m3" :> 90)),
                  StoredUser("u2", "student", EmptyMap),
                  StoredUser("u3", "teacher", EmptyMap) >>,
     modules |-> CourseModules,
     user_progress |->
        << Member("u1", << StoredProgress("u1", "m3", 90, 20, <<80, 90>>) >>),
           Member("u2", <<>>),
           Member("u3", <<>>) >>]

\* two modules of one title, each the prerequisite of the other
CycleDocument ==
    [readable |-> TRUE,
     users |-> << StoredUser("u1", "student", EmptyMap),
                  StoredUser("u3", "teacher", EmptyMap) >>,
     modules |->
        << StoredModule("m1", <<65>>, "ethics_bias", "beginner", <<"m2">>),
           StoredModule("m2", <<65>>, "ethics_bias", "advanced", <<"m1">>) >>,
     user_progress |-> << Member("u1", <<>>), Member("u3", <<>>) >>]

\* the course document with an unknown difficulty tag in its second module
DamagedDocument ==
    [CourseDocument EXCEPT !.modules[2].data.difficulty = "expert"]

\* a file that cannot be opened or is not JSON
UnreadableDocument == [readable |-> FALSE]

\* three beginner modules without prerequisites; the student has completed the
\* last one, of the category of the second, with a mean quiz score of 88.75
QuizDocument ==
    [readable |-> TRUE,
     users |-> << StoredUser("u1", "student", ("m3" :> 90)) >>,
     modules |->
        << StoredModule("m1", <<65>>, "ai_basics", "beginner", <<>>),
           StoredModule("m2", <<66>>, "applications", "beginner", <<>>),
           StoredModule("m3", <<67>>, "applications", "beginner", <<>>) >>,
     user_progress |->
        << Member("u1", << StoredProgress("u1", "m3", 90, 20, <<88, 92, 85, 90>>) >>) >>]

Documents ==
    {CourseDocument, CycleDocument, DamagedDocument, UnreadableDocument, QuizDocument}

----------------------------------------------------------------------------
(* save_platform_data, and the persistence test of demo_new_features: the  *)
(* store is saved, a new platform is constructed and loads the file.       *)

\* role.value, difficulty.value, category.value: the tag of an enum member
RoleValue(role) ==
    CASE role = "STUDENT" -> "student"
      [] role = "TEACHER" -> "teacher"
      [] role = "ADMIN" -> "admin"

DifficultyValue(difficulty) ==
    CASE difficulty = "BEGINNER" -> "beginner"
      [] difficulty = "INTERMEDIATE" -> "intermediate"
      [] difficulty = "ADVANCED" -> "advanced"

CategoryValue(category) ==
    CASE category = "AI_BASICS" -> "ai_basics"
      [] category = "APPLICATIONS" -> "applications"
      [] category = "ETHICS_BIAS" -> "ethics_bias"
      [] category = "CRITICAL_THINKING" -> "critical_thinking"
      [] category = "PRACTICAL_SKILLS" -> "practical_skills"

\* (variant: the progress mapping of a user is not written)
SavedUserWithoutProgress(user) ==
    [id |-> user.id, role |-> RoleValue(user.role), progress |-> EmptyMap]

\* the object written for one user, one module, one progress record
SavedUser(user) ==
    [id |-> user.id, role |-> RoleValue(user.role), progress |-> user.progress]

SavedModule(module) ==
    [id |-> module.id, title |-> module.title,
     category |-> CategoryValue(module.category),
     difficulty |-> DifficultyValue(module.difficulty),
     prerequisites |-> module.prerequisites]

SavedProgress(progress) ==
    [user_id |-> progress.user_id, module_id |-> progress.module_id,
     completion_percentage |-> progress.completion_percentage,
     time_spent |-> progress.time_spent, quiz_scores |-> progress.quiz_scores]

\* the members of a JSON object written from a dict: one per key.  The order of
\* the keys of users and user_progress is not kept by the model; a saved
\* document is loaded in full, whatever the order of its members.
RECURSIVE MembersOf(_, _)
MembersOf(f, keys) ==
    IF keys = {} THEN <<>>
    ELSE LET k == CHOOSE x \in keys : TRUE
         IN  <<Member(k, f[k])>> \o MembersOf(f, keys \ {k})

\* data, as save_platform_data builds it from a store
SavedDocument(store) ==
    [readable |-> TRUE,
     users |-> MembersOf([id \in DOMAIN store.users |-> SavedUser(store.users[id])],
                         DOMAIN store.users),
     modules |-> [i \in 1..Len(store.modules) |->
                     Member(store.modules[i].id, SavedModule(store.modules[i]))],
     user_progress |->
        MembersOf([id \in DOMAIN store.user_progress |->
                      MembersOf([m \in DOMAIN store.user_progress[id] |->
                                    SavedProgress(store.user_progress[id][m])],
                                DOMAIN store.user_progress[id])],
                  DOMAIN store.user_progress)]

\* the ids uuid4 gives the sample modules of a platform constructed later
FreshModuleIds == <<"m4", "m5">>

\* new_platform = AILiteracyPlatform(): empty collections and its own sample
\* content
FreshStore ==
    [users |-> EmptyMap,
     modules |-> << [SampleContent[1] EXCEPT !.id = FreshModuleIds[1]],
                    [SampleContent[2] EXCEPT !.id = FreshModuleIds[2],
                                             !.prerequisites = <<FreshModuleIds[1]>>] >>,
     user_progress |-> EmptyMap]

\* platform.save_platform_data(f); new_platform = AILiteracyPlatform();
\* new_platform.load_platform_data(f).  The store of the step's next state is
\* the one the program goes on with: new_platform's after a load, platform's
\* when the file could not be written.
SaveAndReload(writable) ==
    /\ nops < MaxOps
    /\ nops' = nops + 1
    /\ IF ~writable
       THEN /\ ret' = [op |-> "save_platform_data", user_id |-> "-",
                       module_id |-> "-", value |-> FALSE]
            /\ UNCHANGED <<users, modules, user_progress, calls>>
       ELSE LET result == LoadResult(FreshStore, SavedDocument(Store))
            IN  /\ users' = result.users
                /\ modules' = result.modules
                /\ user_progress' = result.user_progress
                /\ calls' = NoCalls
                /\ ret' = [op |-> "save_and_load", user_id |-> "-",
                           module_id |-> "-", value |-> result.value]

----------------------------------------------------------------------------

Next ==
    \/ \E role \in UserRole : CreateUser(role)
    \/ \E user_id \in UserArgs, module_id \in ModuleArgs,
          completion_percentage \in Completions, time_spent \in TimeArgs :
          UpdateProgress(user_id, module_id, completion_percentage, time_spent)
    \/ \E user_id \in UserArgs, module_id \in ModuleArgs, scores \in QuizScoreLists :
          AssignQuizScores(user_id, module_id, scores)

Spec == Init /\ [][Next]_vars

\* the same calls, and load_platform_data
NextLoad ==
    \/ Next
    \/ \E doc \in Documents : LoadPlatformData(doc)

SpecLoad == Init /\ [][NextLoad]_vars

\* the calls of Next, and the persistence test
NextSave ==
    \/ Next
    \/ \E writable \in BOOLEAN : SaveAndReload(writable)

SpecSave == Init /\ [][NextSave]_vars

----------------------------------------------------------------------------
(* Properties of update_progress, under Spec *)

\* the pair a history entry is about, and its record
PairUser(p) == p[1]
PairModule(p) == p[2]
RecordOf(p) == user_progress[PairUser(p)][PairModule(p)]
MirrorOf(p) == users[PairUser(p)].progress[PairModule(p)]

\* the sum of the time_spent arguments of a history
RECURSIVE TimeArgsSum(_)
TimeArgsSum(history) ==
    IF history = <<>> THEN 0 ELSE Head(history)[2] + TimeArgsSum(Tail(history))

C2_TimeSpentIsSum ==
    \A p \in DOMAIN calls :
        /\ HasRecord(PairUser(p), PairModule(p)) <=> calls[p] # <<>>
        /\ calls[p] # <<>> => RecordOf(p).time_spent = TimeArgsSum(calls[p])

\* C2, second half: a step never removes a record and never lowers its
\* completion_percentage.
C2_CompletionStep ==
    \A p \in DOMAIN calls :
        HasRecord(PairUser(p), PairModule(p)) =>
            /\ HasRecord(PairUser(p), PairModule(p))'
            /\ RecordOf(p)'.completion_percentage >= RecordOf(p).completion_percentage

\* C2: across create_user and update_progress calls the completion_percentage of
\* every record never decreases and its time_spent is the sum of the time_spent
\* arguments of the successful update_progress calls on the pair.
C2_CompletionNeverDecreases ==
    [] C2_TimeSpentIsSum /\ [][C2_CompletionStep]_vars

\* a record updated twice with 20 minutes each, the second call with a lower
\* completion value than the first
C2_Witness ==
    \E p \in DOMAIN calls :
        /\ Len(calls[p]) = 2
        /\ calls[p][1] = <<90, 20>>
        /\ calls[p][2] = <<-10, 20>>
        /\ RecordOf(p).time_spent = 40

\* C3: an update_progress call whose user id is not a key of users or whose
\* module id is not a key of modules returns False and leaves users, modules
\* and user_progress as they were.
C3_RejectedUpdateChangesNothing ==
    [][ ( /\ nops' = nops + 1
          /\ ret'.op = "update_progress"
          /\ \/ ret'.user_id \notin DOMAIN users
             \/ ret'.module_id \notin ModuleIds )
        => ( /\ ret'.value = FALSE
             /\ users' = users
             /\ modules' = modules
             /\ user_progress' = user_progress ) ]_vars

\* a known user who has a record is given an unknown module id, and the call
\* has returned False
C3_Witness ==
    /\ ret.op = "update_progress"
    /\ ret.value = FALSE
    /\ ret.user_id \in DOMAIN users
    /\ ret.module_id = UnknownModule
    /\ ret.user_id \in DOMAIN user_progress
    /\ DOMAIN user_progress[ret.user_id] # {}

----------------------------------------------------------------------------
(* Properties of get_personalized_learning_path, under SpecLoad *)

\* User.progress of the user holds at least 90 for the module id
Done(user_id, module_id) ==
    /\ module_id \in DOMAIN users[user_id].progress
    /\ users[user_id].progress[module_id] >= 90

AllPrerequisitesDone(user_id, module) ==
    \A k \in 1..Len(module.prerequisites) : Done(user_id, module.prerequisites[k])

\* C4: for every user, the learning path holds no module with a prerequisite
\* whose User.progress value is missing or below 90 and no module whose own
\* value is at least 90, and it holds every module of the store that is not
\* completed and whose prerequisites are all completed.
C4_PathIsTheAvailableModules ==
    \A user_id \in DOMAIN users :
        LET path == get_personalized_learning_path(user_id)
        IN  /\ \A i \in 1..Len(path) :
                  /\ path[i] \in Range(modules)
                  /\ ~Done(user_id, path[i].id)
                  /\ AllPrerequisitesDone(user_id, path[i])
            /\ \A j \in 1..Len(modules) :
                  (~Done(user_id, modules[j].id) /\ AllPrerequisitesDone(user_id, modules[j]))
                      => modules[j] \in Range(path)

\* a user whose path holds a module with a prerequisite, while a module the user
\* has completed and a module with an unmet prerequisite are left out
C4_Witness ==
    \E user_id \in DOMAIN users :
        LET path == get_personalized_learning_path(user_id)
        IN  /\ \E i \in 1..Len(path) : path[i].prerequisites # <<>>
            /\ \E j \in 1..Len(modules) :
                  Done(user_id, modules[j].id) /\ modules[j] \notin Range(path)
            /\ \E other \in DOMAIN users :
                  \E j \in 1..Len(modules) :
                      /\ ~AllPrerequisitesDone(other, modules[j])
                      /\ modules[j] \notin Range(get_personalized_learning_path(other))

\* beginner < intermediate < advanced
Rank(difficulty) ==
    IF difficulty = "BEGINNER" THEN 1 ELSE IF difficulty = "INTERMEDIATE" THEN 2 ELSE 3

\* a is b, a proper prefix of b, or smaller than b at the first place they differ
LexLeq(a, b) ==
    \E k \in 0..Len(a) :
        /\ k <= Len(b)
        /\ \A i \in 1..k : a[i] = b[i]
        /\ \/ k = Len(a)
           \/ k < Len(b) /\ a[k + 1] < b[k + 1]

InPathOrder(x, y) ==
    \/ Rank(x.difficulty) < Rank(y.difficulty)
    \/ Rank(x.difficulty) = Rank(y.difficulty) /\ LexLeq(x.title, y.title)

\* C5: the learning path is in ascending order of (difficulty rank, title), and
\* it is the empty sequence for a user id the store does not hold.
C5_PathIsSorted ==
    \A user_id \in UserArgs :
        LET path == get_personalized_learning_path(user_id)
        IN  /\ user_id \notin DOMAIN users => path = <<>>
            /\ \A i, j \in 1..Len(path) : i < j => InPathOrder(path[i], path[j])

\* the position of a module in self.modules
StoredAt(module) == CHOOSE j \in 1..Len(modules) : modules[j] = module

\* one path puts a beginner module in front of an intermediate one that was
\* stored earlier, another puts two beginner modules in title order against the
\* order they were stored in
C5_Witness ==
    /\ \E user_id \in DOMAIN users :
          LET path == get_personalized_learning_path(user_id)
          IN  /\ Len(path) >= 2
              /\ path[1].difficulty = "BEGINNER"
              /\ path[2].difficulty = "INTERMEDIATE"
              /\ StoredAt(path[2]) < StoredAt(path[1])
    /\ \E user_id \in DOMAIN users :
          LET path == get_personalized_learning_path(user_id)
          IN  /\ Len(path) >= 2
              /\ path[1].difficulty = path[2].difficulty
              /\ path[1].title # path[2].title
              /\ StoredAt(path[2]) < StoredAt(path[1])

----------------------------------------------------------------------------
(* Properties of get_adaptive_feedback, under SpecLoad *)

KnownPairs == (DOMAIN users) \X ModuleIds

IsRemedial(feedback) ==
    /\ feedback.message =
          "Consider reviewing the foundational concepts before moving forward."
    /\ Len(feedback.suggestions) = 3
    /\ feedback.difficulty_adjustment = -1

IsAdvancement(feedback) ==
    /\ feedback.message = "Excellent work! You're ready for more advanced topics."
    /\ Len(feedback.suggestions) = 3
    /\ feedback.difficulty_adjustment = 1

IsEncouragement(feedback) ==
    /\ feedback.message =
          "Good progress! Keep practicing to solidify your understanding."
    /\ Len(feedback.suggestions) = 2
    /\ feedback.difficulty_adjustment = 0

\* C6: when the pair has a record, the feedback is remedial for a mean quiz score
\* below 60 (a record with no scores has mean 0), the advancement one for a mean
\* above 85, the encouragement one for a mean from 60 to 85, both included;
\* next_steps is always empty.
C6_ThreeWayPolicy ==
    \A p \in KnownPairs :
        HasRecord(p[1], p[2]) =>
            LET scores == user_progress[p[1]][p[2]].quiz_scores
                n == Len(scores)
                total == SumSeq(scores)
                feedback == get_adaptive_feedback(p[1], p[2])
            IN  /\ feedback.next_steps = <<>>
                /\ (n = 0 \/ total < 60 * n) => IsRemedial(feedback)
                /\ (n > 0 /\ total > 85 * n) => IsAdvancement(feedback)
                /\ (n > 0 /\ total >= 60 * n /\ total <= 85 * n)
                      => IsEncouragement(feedback)

\* a record whose mean is exactly 85, which is not above 85, next to a record
\* without scores
C6_Witness ==
    /\ \E p \in KnownPairs :
          /\ HasRecord(p[1], p[2])
          /\ user_progress[p[1]][p[2]].quiz_scores = <<80, 90>>
          /\ IsEncouragement(get_adaptive_feedback(p[1], p[2]))
    /\ \E p \in KnownPairs :
          /\ HasRecord(p[1], p[2])
          /\ user_progress[p[1]][p[2]].quiz_scores = <<>>
          /\ IsRemedial(get_adaptive_feedback(p[1], p[2]))

\* C7 as stated: a known user and a known module with no record between them
\* get the encouragement message, its two suggestions and adjustment 0.
C7_NoRecordGivesEncouragement ==
    \A p \in KnownPairs :
        ~HasRecord(p[1], p[2]) => IsEncouragement(get_adaptive_feedback(p[1], p[2]))

\* C7 amended: without a record the adjustment is 0, as in the encouragement
\* tier, but the message is empty and there is no suggestion: no branch of the
\* policy has run.
C7_NoRecordGivesNoFeedbackText ==
    \A p \in KnownPairs :
        ~HasRecord(p[1], p[2]) =>
            LET feedback == get_adaptive_feedback(p[1], p[2])
            IN  /\ feedback.difficulty_adjustment = 0
                /\ feedback.message = ""
                /\ feedback.suggestions = <<>>
                /\ ~IsEncouragement(feedback)

\* a user with a record on one module and none on another
C7_Witness ==
    \E p \in KnownPairs :
        /\ ~HasRecord(p[1], p[2])
        /\ \E module_id \in ModuleIds : HasRecord(p[1], module_id)

\* C8: a known user and a known module with no record between them get the
\* initial record (empty message, no suggestions, no next steps, adjustment 0)
\* and no error; an unknown user id or module id gets the not-found record.
C8_NoRecordAndNotFound ==
    \A user_id \in UserArgs, module_id \in ModuleArgs :
        LET feedback == get_adaptive_feedback(user_id, module_id)
        IN  IF user_id \notin DOMAIN users \/ module_id \notin ModuleIds
            THEN feedback = [error |-> "User or module not found"]
            ELSE /\ "error" \notin DOMAIN feedback
                 /\ ~HasRecord(user_id, module_id) =>
                       feedback = [message |-> "", suggestions |-> <<>>,
                                   next_steps |-> <<>>, difficulty_adjustment |-> 0]

\* one user has a record, another user of the store has none on any module, and
\* the unknown ids get the not-found record
C8_Witness ==
    /\ \E p \in KnownPairs : HasRecord(p[1], p[2])
    /\ \E user_id \in DOMAIN users :
          /\ \A module_id \in ModuleIds : ~HasRecord(user_id, module_id)
          /\ get_adaptive_feedback(user_id, modules[1].id).message = ""
          /\ "error" \in DOMAIN get_adaptive_feedback(user_id, UnknownModule)
    /\ "error" \in DOMAIN get_adaptive_feedback(UnknownUser, modules[1].id)

----------------------------------------------------------------------------
(* Properties of the role-gated queries, under SpecLoad *)

HasRole(user_id, role) == user_id \in DOMAIN users /\ users[user_id].role = role

\* C9: get_teacher_dashboard_data answers "Access denied" to every id that is
\* unknown or is not a teacher's, get_student_analytics answers "Student not
\* found" to every id that is unknown or is not a student's, whatever records
\* the user has; with the required role each returns a data record without an
\* error.
C9_RoleGates ==
    \A user_id \in UserArgs :
        LET dashboard == get_teacher_dashboard_data(user_id)
            analytics == get_student_analytics(user_id)
        IN  /\ IF HasRole(user_id, "TEACHER")
               THEN /\ "error" \notin DOMAIN dashboard
                    /\ "total_students" \in DOMAIN dashboard
               ELSE dashboard = [error |-> "Access denied"]
            /\ IF HasRole(user_id, "STUDENT")
               THEN /\ "error" \notin DOMAIN analytics
                    /\ "overall_progress" \in DOMAIN analytics
               ELSE analytics = [error |-> "Student not found"]

\* a teacher who has a progress record is refused the analytics, a student is
\* refused the dashboard, and each is given the other query's data
C9_Witness ==
    \E teacher_id, student_id \in DOMAIN users :
        /\ HasRole(teacher_id, "TEACHER")
        /\ HasRole(student_id, "STUDENT")
        /\ \E module_id \in ModuleIds : HasRecord(teacher_id, module_id)
        /\ "error" \in DOMAIN get_student_analytics(teacher_id)
        /\ "error" \in DOMAIN get_teacher_dashboard_data(student_id)
        /\ get_teacher_dashboard_data(teacher_id).total_students >= 1
        /\ get_student_analytics(student_id).modules_completed >= 0

\* the number of students whose User.progress holds at least 90 for the module
StudentsDone(module_id) ==
    Cardinality({student_id \in Students : Done(student_id, module_id)})

\* C10: for a teacher the dashboard reports the number of students, and for every
\* module of the store an entry whose rate is 100 * (students who completed the
\* module) / (number of students), or 0 when there is no student.
C10_RateOfEveryModule ==
    \A teacher_id \in DOMAIN users :
        HasRole(teacher_id, "TEACHER") =>
            LET dashboard == get_teacher_dashboard_data(teacher_id)
                rates == dashboard.module_completion_rates
                total == Cardinality(Students)
            IN  /\ dashboard.total_students = total
                /\ \A j \in 1..Len(modules) :
                      /\ modules[j].title \in DOMAIN rates
                      /\ LET rate == rates[modules[j].title]
                         IN  IF total = 0
                             THEN rate.num = 0
                             ELSE rate.num * total
                                     = 100 * StudentsDone(modules[j].id) * rate.den

----------------------------------------------------------------------------
(* Properties of get_student_analytics, under SpecLoad *)

\* the records the store holds for a user id, none when the id is not keyed
RecordsOf(user_id) ==
    IF user_id \in DOMAIN user_progress THEN user_progress[user_id] ELSE EmptyMap

\* the sum of one field over the records of the module ids in ids
RECURSIVE FieldTotal(_, _, _)
FieldTotal(records, ids, field) ==
    IF ids = {} THEN 0
    ELSE LET m == CHOOSE x \in ids : TRUE
         IN  records[m][field] + FieldTotal(records, ids \ {m}, field)

\* C11: for a student the analytics count the student's records: those with
\* completion >= 90 as modules_completed, those with 0 < completion < 90 as
\* modules_in_progress; total_time_spent is the sum of time_spent and
\* overall_progress the mean completion (0 without records); the two counts
\* together never exceed the number of records, and the three lists are empty.
C11_AnalyticsCountTheRecords ==
    \A student_id \in DOMAIN users :
        HasRole(student_id, "STUDENT") =>
            LET analytics == get_student_analytics(student_id)
                records == RecordsOf(student_id)
                ids == DOMAIN records
                n == Cardinality(ids)
                completed == {m \in ids : records[m].completion_percentage >= 90}
                started == {m \in ids : /\ 0 < records[m].completion_percentage
                                        /\ records[m].completion_percentage < 90}
            IN  /\ analytics.modules_completed = Cardinality(completed)
                /\ analytics.modules_in_progress = Cardinality(started)
                /\ analytics.total_time_spent = FieldTotal(records, ids, "time_spent")
                /\ IF n = 0
                   THEN analytics.overall_progress.num = 0
                   ELSE analytics.overall_progress.num * n
                           = FieldTotal(records, ids, "completion_percentage")
                                * analytics.overall_progress.den
                /\ analytics.modules_completed + analytics.modules_in_progress <= n
                /\ analytics.strengths = <<>>
                /\ analytics.areas_for_improvement = <<>>
                /\ analytics.next_recommendations = <<>>

\* a student with three records: one completed, one part-way and one whose
\* completion is 0, which is counted in neither
C11_Witness ==
    \E student_id \in DOMAIN users :
        /\ HasRole(student_id, "STUDENT")
        /\ Cardinality(DOMAIN RecordsOf(student_id)) = 3
        /\ \E m \in DOMAIN RecordsOf(student_id) :
              RecordsOf(student_id)[m].completion_percentage = 0
        /\ get_student_analytics(student_id).modules_completed = 1
        /\ get_student_analytics(student_id).modules_in_progress = 1
        /\ get_student_analytics(student_id).total_time_spent = 40

----------------------------------------------------------------------------
(* Properties of recommend_next_module, under SpecLoad *)

\* the records of the user that count for a category: their module id is a
\* module of that category and they hold at least one quiz score
CountedFor(user_id, category) ==
    {m \in DOMAIN RecordsOf(user_id) :
        /\ RecordsOf(user_id)[m].quiz_scores # <<>>
        /\ \E j \in 1..Len(modules) :
              modules[j].id = m /\ modules[j].category = category}

\* the product of the numbers of scores of the records in ids
RECURSIVE ScoreCounts(_, _)
ScoreCounts(records, ids) ==
    IF ids = {} THEN 1
    ELSE LET m == CHOOSE x \in ids : TRUE
         IN  Len(records[m].quiz_scores) * ScoreCounts(records, ids \ {m})

\* the sum of the means of the records in ids, multiplied by scale, which every
\* number of scores divides
RECURSIVE ScaledMeans(_, _, _)
ScaledMeans(records, ids, scale) ==
    IF ids = {} THEN 0
    ELSE LET m == CHOOSE x \in ids : TRUE
         IN  SumSeq(records[m].quiz_scores) * (scale \div Len(records[m].quiz_scores))
                + ScaledMeans(records, ids \ {m}, scale)

\* the mean, over the records counted for the category, of each record's mean
\* quiz score is above 75
CategoryAbove75(user_id, category) ==
    LET records == RecordsOf(user_id)
        ids == CountedFor(user_id, category)
        scale == ScoreCounts(records, ids)
    IN  /\ ids # {}
        /\ ScaledMeans(records, ids, scale) > 75 * Cardinality(ids) * scale

\* C12: recommend_next_module returns none for an unknown user and for an empty
\* learning path L; otherwise the first module of L whose category has a grouped
\* mean quiz score above 75, and the first module of L when no category
\* qualifies, as it does for a user without quiz scores; the result is in L.
C12_FirstQualifyingModule ==
    \A user_id \in UserArgs :
        LET path == get_personalized_learning_path(user_id)
            result == recommend_next_module(user_id)
            qualifying == {i \in 1..Len(path) : CategoryAbove75(user_id, path[i].category)}
        IN  IF user_id \notin DOMAIN users \/ path = <<>>
            THEN result = [none |-> TRUE]
            ELSE /\ result \in Range(path)
                 /\ qualifying = {} => result = path[1]
                 /\ \A i \in qualifying :
                       (\A j \in qualifying : i <= j) => result = path[i]
                 /\ (\A m \in DOMAIN RecordsOf(user_id) :
                        RecordsOf(user_id)[m].quiz_scores = <<>>) => result = path[1]

\* the first module of the path does not qualify and the second does: the
\* second is recommended
C12_Witness ==
    \E user_id \in DOMAIN users :
        LET path == get_personalized_learning_path(user_id)
        IN  /\ Len(path) = 2
            /\ ~CategoryAbove75(user_id, path[1].category)
            /\ CategoryAbove75(user_id, path[2].category)
            /\ recommend_next_module(user_id) = path[2]

\* both modules of the path qualify, the first on a mean of 85 and the second,
\* of another category, on a mean of 88.75: the first is recommended
C12_WitnessFirstMatch ==
    /\ ret.op = "quiz_scores"
    /\ LET path == get_personalized_learning_path(ret.user_id)
           records == RecordsOf(ret.user_id)
       IN  /\ Len(path) = 2
           /\ path[1].id = ret.module_id
           /\ path[1].category # path[2].category
           /\ records[ret.module_id].quiz_scores = <<80, 90>>
           /\ CountedFor(ret.user_id, path[1].category) = {ret.module_id}
           /\ \E m \in CountedFor(ret.user_id, path[2].category) :
                 /\ CountedFor(ret.user_id, path[2].category) = {m}
                 /\ records[m].quiz_scores = <<88, 92, 85, 90>>
           /\ recommend_next_module(ret.user_id) = path[1]

----------------------------------------------------------------------------
(* Properties of save_platform_data and load_platform_data *)

\* what a newly constructed store holds after loading the file saved from the
\* store of this state: the collections of this state, and the flag True
C13_SavedStoreLoadsBack ==
    LoadResult(FreshStore, SavedDocument(Store))
        = [users |-> users, modules |-> modules, user_progress |-> user_progress,
           value |-> TRUE]

\* C13: when a store reached by create_user and update_progress is saved and
\* the file is loaded into a newly constructed store, the load succeeds and the
\* new store's users, modules and user_progress equal the saved store's, key for
\* key and field for field; none of the new store's own sample modules is left.
C13_RoundTrip ==
    /\ [] C13_SavedStoreLoadsBack
    /\ [][ (nops' = nops + 1 /\ ret'.op = "save_and_load")
           => ( /\ ret'.value = TRUE
                /\ users' = users
                /\ modules' = modules
                /\ user_progress' = user_progress
                /\ \A i \in 1..Len(modules') :
                      modules'[i].id \notin Range(FreshModuleIds) ) ]_vars

\* a store saved and loaded whose user has a record at completion 0 with 20
\* minutes and the raw value -10 in User.progress
C13_Witness ==
    /\ ret.op = "save_and_load"
    /\ ret.value = TRUE
    /\ \E user_id \in DOMAIN users :
          \E module_id \in DOMAIN users[user_id].progress :
              /\ users[user_id].progress[module_id] = -10
              /\ HasRecord(user_id, module_id)
              /\ user_progress[user_id][module_id].completion_percentage = 0
              /\ user_progress[user_id][module_id].time_spent = 20
    /\ Len(modules) = 2

----------------------------------------------------------------------------
(* Properties of the learning path over a cyclic prerequisite relation,    *)
(* under SpecLoad                                                          *)

\* the modules of the store that a module of ids lists as a prerequisite
RequiredBy(ids) ==
    {b \in ModuleIds :
        \E j \in 1..Len(modules) :
            modules[j].id \in ids /\ b \in Range(modules[j].prerequisites)}

\* ids and everything required from it in at most n steps
RECURSIVE RequiredWithin(_, _)
RequiredWithin(ids, n) ==
    IF n = 0 THEN ids ELSE RequiredWithin(ids \cup RequiredBy(ids), n - 1)

\* the modules required by the module, directly or through other modules
AllRequiredBy(module_id) == RequiredWithin(RequiredBy({module_id}), Len(modules))

\* the module lies on a cycle of the prerequisite relation
OnCycle(module_id) == module_id \in AllRequiredBy(module_id)

\* the modules on a cycle with the module
CycleOf(module_id) ==
    {b \in AllRequiredBy(module_id) : module_id \in AllRequiredBy(b)}

InPath(user_id, module_id) ==
    \E i \in 1..Len(get_personalized_learning_path(user_id)) :
        get_personalized_learning_path(user_id)[i].id = module_id

\* C14 as stated: a module on a cycle of the prerequisite relation is in no
\* user's learning path, in any state the calls reach.
C14_CycleModuleNeverAvailable ==
    \A user_id \in DOMAIN users :
        \A module_id \in ModuleIds :
            OnCycle(module_id) => ~InPath(user_id, module_id)

\* C14 amended: a module on a cycle is in no learning path of a user whose
\* User.progress has no module of that cycle at 90 or more; update_progress
\* does not look at prerequisites, so the module is in the path exactly when
\* the user has completed all its prerequisites, one of them on the cycle, and
\* not the module itself.
C14_CycleModuleWaitsForItsPrerequisites ==
    \A user_id \in DOMAIN users :
        \A module_id \in ModuleIds :
            OnCycle(module_id) =>
                /\ InPath(user_id, module_id) <=>
                      /\ ~Done(user_id, module_id)
                      /\ \A j \in 1..Len(modules) :
                            modules[j].id = module_id
                                => AllPrerequisitesDone(user_id, modules[j])
                /\ InPath(user_id, module_id) =>
                      \E other \in CycleOf(module_id) \ {module_id} :
                          Done(user_id, other)
                /\ (\A other \in CycleOf(module_id) : ~Done(user_id, other))
                      => ~InPath(user_id, module_id)

\* update_progress has recorded 90 for one module of a cycle of two, and the
\* other module of the cycle is in the user's learning path
C14_Witness ==
    /\ ret.op = "update_progress"
    /\ ret.value = TRUE
    /\ OnCycle(ret.module_id)
    /\ Done(ret.user_id, ret.module_id)
    /\ ~InPath(ret.user_id, ret.module_id)
    /\ \E other \in CycleOf(ret.module_id) \ {ret.module_id} :
          InPath(ret.user_id, other)

----------------------------------------------------------------------------
(* Properties of the stored progress values, under Spec *)

\* C15: every value stored in User.progress lies in the range 0 to 100,
\* whatever completion_percentage arguments update_progress was given.
C15_UserProgressInRange ==
    \A user_id \in DOMAIN users :
        \A module_id \in DOMAIN users[user_id].progress :
            /\ users[user_id].progress[module_id] >= 0
            /\ users[user_id].progress[module_id] <= 100

\* C16: for every user the module ids keyed in User.progress are those keyed in
\* user_progress of the user, each is a module of the store, each record's
\* user_id and module_id are its keys, and the record's completion_percentage
\* is not below the value User.progress holds for the module.
C16_MirrorAndRecordsAgree ==
    /\ DOMAIN user_progress = DOMAIN users
    /\ \A user_id \in DOMAIN users :
          /\ DOMAIN users[user_id].progress = DOMAIN user_progress[user_id]
          /\ DOMAIN user_progress[user_id] \subseteq ModuleIds
          /\ \A module_id \in DOMAIN user_progress[user_id] :
                LET record == user_progress[user_id][module_id]
                IN  /\ record.user_id = user_id
                    /\ record.module_id = module_id
                    /\ record.completion_percentage
                          >= users[user_id].progress[module_id]

\* a user with records on two modules, one of them above the value that
\* User.progress holds for the module
C16_Witness ==
    \E user_id \in DOMAIN users :
        /\ Cardinality(DOMAIN user_progress[user_id]) = 2
        /\ \E module_id \in DOMAIN user_progress[user_id] :
              user_progress[user_id][module_id].completion_percentage
                  > users[user_id].progress[module_id]

----------------------------------------------------------------------------
(* Properties of a failed load_platform_data, under SpecLoad *)

\* C17: a load_platform_data call that returns False leaves users, modules and
\* user_progress as they were before the call.
C17_FailedLoadChangesNothing ==
    [][ ( /\ nops' = nops + 1
          /\ ret'.op = "load_platform_data"
          /\ ret'.value = FALSE )
        => ( /\ users' = users
             /\ modules' = modules
             /\ user_progress' = user_progress ) ]_vars

----------------------------------------------------------------------------
(* Properties of the learning path over time, under Spec *)

\* a successful update_progress call on the pair was given a completion of at
\* least 90
CompletionRecorded(p) == \E i \in 1..Len(calls[p]) : calls[p][i][1] >= 90

\* C18: once update_progress has recorded a completion of at least 90 for a
\* user and a module, the module is not in the user's learning path, and no
\* module that lists it as a prerequisite is kept out of the path because of it:
\* such a module is in the path when it is not completed and its other
\* prerequisites are completed.
C18_CompletionIsStable ==
    \A p \in DOMAIN calls :
        CompletionRecorded(p) =>
            /\ ~InPath(PairUser(p), PairModule(p))
            /\ \A j \in 1..Len(modules) :
                  ( /\ PairModule(p) \in Range(modules[j].prerequisites)
                    /\ ~Done(PairUser(p), modules[j].id)
                    /\ \A k \in 1..Len(modules[j].prerequisites) :
                          modules[j].prerequisites[k] # PairModule(p)
                              => Done(PairUser(p), modules[j].prerequisites[k]) )
                      => InPath(PairUser(p), modules[j].id)
====
